---- MODULE Spec2Model ----
(***************************************************************************)
(* wait_for_jobs_completion of the Lab 1 notebook (Step 3.2): the tracker  *)
(* that polls AWS Batch with describe_jobs until every submitted job is    *)
(* SUCCEEDED or FAILED and then prints a final status summary.             *)
(*                                                                         *)
(* The tracker is one sequential control flow; pc is its position.  The    *)
(* status provider (batch_client) is the environment: its answers are the  *)
(* current value of status, which changes between the tracker's steps.     *)
(*                                                                         *)
(* The second part is the inference script of the Lab 2 notebook           *)
(* (inference-embeddings.py): a request goes through input_fn, predict_fn  *)
(* and output_fn, each a function of its arguments.                        *)
(***************************************************************************)
EXTENDS Naturals, Sequences, FiniteSets

\* ------------------------------------------------------------- bounds
\* Number of different job identifiers the caller may pass.
NumIds == 2
\* Longest job_ids sequence passed to the call.
MaxJobs == 2
\* The history counters (passes, suspensions, queries) stop counting here.
MaxCount == 2

\* ------------------------------------------------------------- values
Ids == 1..NumIds

\* job['status'] as describe_jobs reports it: RUNNING stands for the states
\* of a job that has not ended (the code prints them and does nothing else),
\* SUCCEEDED and FAILED are the two end states.
NonTerminal == {"RUNNING"}
Terminal == {"SUCCEEDED", "FAILED"}
Statuses == NonTerminal \cup Terminal

NoStatus == "-"

\* All sequences over S of length at most n.
SeqsUpTo(S, n) == UNION {[1..k -> S] : k \in 0..n}

Range(s) == {s[k] : k \in 1..Len(s)}

\* A history counter: counts up to MaxCount and stays there.
Bump(n) == IF n < MaxCount THEN n + 1 ELSE n

VARIABLES
    job_ids,         \* the argument: the ordered sequence of job identifiers
    status,          \* provider: the status describe_jobs reports per job now
    pc,              \* "while" | "for" | "sleep" | "summary" | "done" | "raised"
    idx,             \* position of the running for loop in job_ids
    completed_jobs,  \* the local set completed_jobs
    response,        \* the job record describe_jobs returned in the latest step
    printed,         \* the lines the latest step printed
    recorded,        \* per job: the status of its "completed with status" line
    seen,            \* jobs a query of the polling loop has reported terminal
    order,           \* jobs in the order they were added to completed_jobs
    summary,         \* the lines of the final status summary, in print order
    requeried,       \* jobs the polling loop queried while in completed_jobs
    reprinted,       \* jobs the polling loop printed a line for while in it
    late,            \* per job: queries issued after it was seen terminal
    nq_sum,          \* per job: describe_jobs calls of the final summary
    ncompleted,      \* per job: "completed with status" lines printed
    passes,          \* passes of the while loop started
    sleeps,          \* time.sleep(check_interval) calls
    kpass,           \* first pass at whose end all of job_ids was seen terminal
    raises,          \* describe_jobs calls that raised
    flipped,         \* jobs whose reported terminal status the provider changed
    request,         \* Lab 2: the request the endpoint is serving
    stage,           \* Lab 2: the function of the script that runs next
    input_data,      \* Lab 2: what input_fn returned
    prediction,      \* Lab 2: what predict_fn returned
    outcome          \* Lab 2: the response returned or the exception raised

\* The variables of the inference script.
pipeline == <<request, stage, input_data, prediction, outcome>>

\* The variables of wait_for_jobs_completion and its provider.
call == <<job_ids, status, pc, idx, completed_jobs, response, printed, recorded,
          seen, order, summary, requeried, reprinted, late, nq_sum, ncompleted,
          passes, sleeps, kpass, raises, flipped>>

vars == <<call, pipeline>>

provider == <<status, flipped>>
history == <<recorded, seen, order, summary, requeried, reprinted, late,
             nq_sum, ncompleted, passes, sleeps, kpass>>

NoResponse == [id |-> 0, status |-> NoStatus, reason |-> FALSE]

\* ------------------------------------------------------------- the code

\* Variants of the code with one slip each, used to show that the properties
\* below depend on the code they are about.
IsTerminal_OnlySucceeded(s) == s \in {"SUCCEEDED"}
IsTerminal_AlsoRunning(s) == s \in {"SUCCEEDED", "FAILED", "RUNNING"}
Skips_Never(job_id) == FALSE
NotAllCompleted_OffByOne == Cardinality(completed_jobs) + 1 < Len(job_ids)
NotAllCompleted_Capped ==
    Cardinality(completed_jobs) < Len(job_ids) /\ passes < MaxCount

\* status in ['SUCCEEDED', 'FAILED']
IsTerminal(s) == s \in {"SUCCEEDED", "FAILED"}

\* if job_id in completed_jobs: continue
Skips(job_id) == job_id \in completed_jobs

\* len(completed_jobs) < len(job_ids)
NotAllCompleted == Cardinality(completed_jobs) < Len(job_ids)

\* status == 'FAILED' and 'statusReason' in job
ShowsReason(job) == job.status = "FAILED" /\ job.reason

\* The lines one polled job record makes the loop body print.
PollLines(job) ==
    IF IsTerminal(job.status)
    THEN IF job.id \notin completed_jobs
         THEN <<<<"completed", job.id, job.status>>>>
              \o (IF ShowsReason(job) THEN <<<<"reason", job.id>>>> ELSE <<>>)
         ELSE <<>>
    ELSE <<<<"is", job.id, job.status>>>>

\* Every id of job_ids has been reported terminal by a query of this call.
AllSeen(s) == Range(job_ids) \subseteq s

CallInit ==
    /\ job_ids \in SeqsUpTo(Ids, MaxJobs)
    /\ status \in [Ids -> Statuses]
    /\ \A j \in Ids \ Range(job_ids) : status[j] = "RUNNING"
    /\ pc = "while"
    /\ idx = 1
    /\ completed_jobs = {}
    /\ response = NoResponse
    /\ printed = <<>>
    /\ recorded = [j \in Ids |-> NoStatus]
    /\ seen = {}
    /\ order = <<>>
    /\ summary = <<>>
    /\ requeried = {}
    /\ reprinted = {}
    /\ late = [j \in Ids |-> 0]
    /\ nq_sum = [j \in Ids |-> 0]
    /\ ncompleted = [j \in Ids |-> 0]
    /\ passes = 0
    /\ sleeps = 0
    /\ kpass = 0
    /\ raises = 0
    /\ flipped = {}

\* ------------------------------------------------- the inference script

JSON == "application/json"

\* Content and accept types a client may send.
MediaTypes == {JSON, "text/csv"}

\* The "mode" member of a JSON object body: missing, one of the two modes
\* of the script, another string, or null.
ModeMembers == {"absent", "logits", "embeddings", "attention", "null"}

\* Request bodies by what json.loads makes of them: text that is no JSON, a
\* JSON value that is no object, or an object with or without "sequence"
\* and "mode" members.
Bodies ==
    {[kind |-> k, has_sequence |-> FALSE, mode |-> "absent"] :
        k \in {"invalid", "array"}}
    \cup {[kind |-> "object", has_sequence |-> h, mode |-> m] :
            h \in BOOLEAN, m \in ModeMembers}

\* A request with the model behind the endpoint: attrs are the attributes
\* the output object of the model has.
Requests ==
    [content_type : MediaTypes, accept : MediaTypes, body : Bodies,
     attrs : SUBSET {"logits", "hidden_states"}]

NoRequest ==
    [content_type |-> "-", accept |-> "-",
     body |-> [kind |-> "-", has_sequence |-> FALSE, mode |-> "-"],
     attrs |-> {}]

NoValue == [sequence |-> "-", mode |-> "-", attrs |-> {}]

\* A function call ends in a returned value or a raised exception.
Returns(v) == [kind |-> "return", value |-> v, exc |-> "-", message |-> "-"]
Raises(e, m) == [kind |-> "raise", value |-> NoValue, exc |-> e, message |-> m]

NoOutcome ==
    [kind |-> "-", by |-> "-", exc |-> "-", message |-> "-", keys |-> {},
     accept |-> "-"]

\* Variant of the script: predict_fn runs the model whatever the mode.
predict_fn_AnyMode(data, model_attrs) ==
    Returns([sequence |-> data.sequence, mode |-> data.mode,
             attrs |-> model_attrs])

\* input_fn: json.loads (JSONDecodeError is a ValueError), then
\* input_data['sequence'], then input_data.get('mode', 'logits').
input_fn(request_body, content_type) ==
    IF content_type = JSON
    THEN IF request_body.kind = "invalid"
         THEN Raises("ValueError", "JSONDecodeError")
         ELSE IF request_body.kind # "object"
         THEN Raises("TypeError", "indices must be integers")
         ELSE IF ~request_body.has_sequence
         THEN Raises("KeyError", "sequence")
         ELSE Returns([sequence |-> "sequence",
                       mode |-> IF request_body.mode = "absent" THEN "logits"
                                ELSE request_body.mode,
                       attrs |-> {}])
    ELSE Raises("ValueError", "Unsupported content type")

\* predict_fn: the model runs for the two modes, any other mode raises.
predict_fn(data, model_attrs) ==
    IF data.mode \in {"logits", "embeddings"}
    THEN Returns([sequence |-> data.sequence, mode |-> data.mode,
                  attrs |-> model_attrs])
    ELSE Raises("ValueError", "Unknown mode")

\* output_fn: json.dumps({mode: result.tolist()}) is a JSON object whose
\* one key is mode; the value returned here is that key.
output_fn(pred, accept) ==
    IF accept = JSON
    THEN IF pred.mode = "logits"
         THEN IF "logits" \in pred.attrs
              THEN Returns([sequence |-> pred.sequence, mode |-> pred.mode,
                            attrs |-> pred.attrs])
              ELSE Raises("ValueError", "Unknown prediction format")
         ELSE IF pred.mode = "embeddings"
         THEN IF "hidden_states" \in pred.attrs
              THEN Returns([sequence |-> pred.sequence, mode |-> pred.mode,
                            attrs |-> pred.attrs])
              ELSE Raises("ValueError", "Unknown prediction format")
         ELSE Raises("ValueError", "Unknown mode")
    ELSE Raises("ValueError", "Unsupported accept type")

\* No request is being served.
PipelineIdle ==
    /\ request = NoRequest
    /\ stage = "idle"
    /\ input_data = NoValue
    /\ prediction = NoValue
    /\ outcome = NoOutcome

Init == CallInit /\ PipelineIdle

\* An exception of one of the three functions ends the request.
Fails(by, r) ==
    /\ stage' = "raised"
    /\ outcome' = [kind |-> "raise", by |-> by, exc |-> r.exc,
                   message |-> r.message, keys |-> {}, accept |-> "-"]

\* The endpoint calls input_fn(request_body, content_type).
InputFn ==
    /\ stage = "input_fn"
    /\ LET r == input_fn(request.body, request.content_type) IN
         IF r.kind = "return"
         THEN /\ input_data' = r.value
              /\ stage' = "predict_fn"
              /\ UNCHANGED outcome
         ELSE /\ Fails("input_fn", r)
              /\ UNCHANGED input_data
    /\ UNCHANGED <<call, request, prediction>>

\* The endpoint calls predict_fn(input_data, model_artifacts).
PredictFn ==
    /\ stage = "predict_fn"
    /\ LET r == predict_fn(input_data, request.attrs) IN
         IF r.kind = "return"
         THEN /\ prediction' = r.value
              /\ stage' = "output_fn"
              /\ UNCHANGED outcome
         ELSE /\ Fails("predict_fn", r)
              /\ UNCHANGED prediction
    /\ UNCHANGED <<call, request, input_data>>

\* The endpoint calls output_fn(prediction, accept).
OutputFn ==
    /\ stage = "output_fn"
    /\ LET r == output_fn(prediction, request.accept) IN
         IF r.kind = "return"
         THEN /\ stage' = "returned"
              /\ outcome' = [kind |-> "return", by |-> "output_fn", exc |-> "-",
                             message |-> "-", keys |-> {r.value.mode},
                             accept |-> request.accept]
         ELSE Fails("output_fn", r)
    /\ UNCHANGED <<call, request, input_data, prediction>>

\* A request arrives at the endpoint; no job tracker is part of it.
PipelineInit ==
    /\ CallInit
    /\ job_ids = <<>>
    /\ request \in Requests
    /\ stage = "input_fn"
    /\ input_data = NoValue
    /\ prediction = NoValue
    /\ outcome = NoOutcome

PipelineNext ==
    \/ InputFn
    \/ PredictFn
    \/ OutputFn

PipelineSpec == PipelineInit /\ [][PipelineNext]_vars

\* ------------------------------------------- wait_for_jobs_completion

\* while len(completed_jobs) < len(job_ids): enter the next pass.
WhileEnter ==
    /\ pc = "while"
    /\ NotAllCompleted
    /\ pc' = "for"
    /\ idx' = 1
    /\ passes' = Bump(passes)
    /\ printed' = <<>>
    /\ response' = NoResponse
    /\ UNCHANGED <<pipeline, job_ids, provider, completed_jobs, recorded, seen,
                   order, summary, requeried, reprinted, late, nq_sum, ncompleted,
                   sleeps, kpass, raises>>

\* The while condition is false: leave the loop, print the two headers.
WhileExit ==
    /\ pc = "while"
    /\ ~NotAllCompleted
    /\ pc' = "summary"
    /\ idx' = 1
    /\ printed' = <<<<"all completed">>, <<"final status summary">>>>
    /\ UNCHANGED <<pipeline, job_ids, provider, completed_jobs, history, raises>>
    /\ response' = NoResponse

\* if job_id in completed_jobs: continue
ForSkip ==
    /\ pc = "for"
    /\ idx <= Len(job_ids)
    /\ Skips(job_ids[idx])
    /\ idx' = idx + 1
    /\ printed' = <<>>
    /\ UNCHANGED <<pipeline, job_ids, provider, pc, completed_jobs, history, raises>>
    /\ response' = NoResponse

\* The rest of the loop body for a job record describe_jobs returned.
PollJob(job) ==
    /\ response' = job
    /\ requeried' = IF job.id \in completed_jobs THEN requeried \cup {job.id}
                    ELSE requeried
    /\ reprinted' = IF job.id \in completed_jobs /\ PollLines(job) # <<>>
                    THEN reprinted \cup {job.id} ELSE reprinted
    /\ late' = IF job.id \in seen THEN [late EXCEPT ![job.id] = Bump(@)] ELSE late
    /\ seen' = IF job.status \in Terminal THEN seen \cup {job.id} ELSE seen
    /\ printed' = PollLines(job)
    /\ IF IsTerminal(job.status) /\ job.id \notin completed_jobs
       THEN /\ completed_jobs' = completed_jobs \cup {job.id}
            /\ recorded' = [recorded EXCEPT ![job.id] = job.status]
            /\ ncompleted' = [ncompleted EXCEPT ![job.id] = Bump(@)]
            /\ order' = order \o <<job.id>>
       ELSE UNCHANGED <<completed_jobs, recorded, ncompleted, order>>
    /\ idx' = idx + 1
    /\ UNCHANGED <<pipeline, job_ids, provider, pc, summary, nq_sum, passes, sleeps, kpass,
                   raises>>

\* response = batch_client.describe_jobs(jobs=[job_id]) answers; the loop
\* body handles the job record.
ForQuery ==
    /\ pc = "for"
    /\ idx <= Len(job_ids)
    /\ ~Skips(job_ids[idx])
    /\ \E r \in BOOLEAN :
         PollJob([id |-> job_ids[idx], status |-> status[job_ids[idx]],
                  reason |-> r])

\* Variant: the exception is caught and the same query is tried again.
Propagate_Retry ==
    /\ printed' = <<>>
    /\ response' = NoResponse
    /\ UNCHANGED <<pipeline, job_ids, provider, pc, idx, completed_jobs, history>>

\* What an exception of describe_jobs does to the call: nothing catches it.
Propagate ==
    /\ pc' = "raised"
    /\ printed' = <<>>
    /\ UNCHANGED <<pipeline, job_ids, provider, idx, completed_jobs, history>>
    /\ response' = NoResponse

\* describe_jobs raises inside the polling loop.
ForRaise ==
    /\ pc = "for"
    /\ idx <= Len(job_ids)
    /\ ~Skips(job_ids[idx])
    /\ raises' = Bump(raises)
    /\ Propagate

\* The for loop is over; if len(completed_jobs) < len(job_ids): sleep.
PassEndSleep ==
    /\ pc = "for"
    /\ idx = Len(job_ids) + 1
    /\ NotAllCompleted
    /\ pc' = "sleep"
    /\ sleeps' = Bump(sleeps)
    /\ printed' = <<<<"waiting">>>>
    /\ kpass' = IF kpass = 0 /\ AllSeen(seen) THEN passes ELSE kpass
    /\ response' = NoResponse
    /\ UNCHANGED <<pipeline, job_ids, provider, idx, completed_jobs, recorded,
                   seen, order, summary, requeried, reprinted, late, nq_sum,
                   ncompleted, passes, raises>>

\* The for loop is over and every job is completed: back to the while test.
PassEndDone ==
    /\ pc = "for"
    /\ idx = Len(job_ids) + 1
    /\ ~NotAllCompleted
    /\ pc' = "while"
    /\ printed' = <<>>
    /\ kpass' = IF kpass = 0 /\ AllSeen(seen) THEN passes ELSE kpass
    /\ response' = NoResponse
    /\ UNCHANGED <<pipeline, job_ids, provider, idx, completed_jobs, recorded,
                   seen, order, summary, requeried, reprinted, late, nq_sum,
                   ncompleted, passes, sleeps, raises>>

\* time.sleep(check_interval) returns; print(); back to the while test.
Wake ==
    /\ pc = "sleep"
    /\ pc' = "while"
    /\ printed' = <<<<"">>>>
    /\ UNCHANGED <<pipeline, job_ids, provider, idx, completed_jobs, history, raises>>
    /\ response' = NoResponse

\* One iteration of the final summary loop for the job record returned.
SummaryJob(job) ==
    /\ response' = job
    /\ nq_sum' = [nq_sum EXCEPT ![job.id] = Bump(@)]
    /\ late' = IF job.id \in seen THEN [late EXCEPT ![job.id] = Bump(@)] ELSE late
    /\ summary' = Append(summary, [id |-> job.id, status |-> job.status])
    /\ printed' = <<<<"summary", job.id, job.status>>>>
    /\ idx' = idx + 1
    /\ UNCHANGED <<pipeline, job_ids, provider, pc, completed_jobs, recorded, seen, order,
                   requeried, reprinted, ncompleted, passes, sleeps, kpass,
                   raises>>

\* Variant: the summary walks the jobs in the order they completed.
SummaryTarget_ByCompletion(i) == order[i]

\* for job_id in job_ids: the job of the i-th iteration of the summary loop.
SummaryTarget(i) == job_ids[i]

\* describe_jobs answers in the summary loop, the line is printed.
SummaryQuery ==
    /\ pc = "summary"
    /\ idx <= Len(job_ids)
    /\ \E r \in BOOLEAN :
         SummaryJob([id |-> SummaryTarget(idx),
                     status |-> status[SummaryTarget(idx)], reason |-> r])

\* describe_jobs raises inside the final summary.
SummaryRaise ==
    /\ pc = "summary"
    /\ idx <= Len(job_ids)
    /\ raises' = Bump(raises)
    /\ Propagate

\* The summary loop is over: the function returns.
Return ==
    /\ pc = "summary"
    /\ idx = Len(job_ids) + 1
    /\ pc' = "done"
    /\ printed' = <<>>
    /\ UNCHANGED <<pipeline, job_ids, provider, idx, completed_jobs, history, raises>>
    /\ response' = NoResponse

Running == pc \notin {"done", "raised"}

\* The provider moves a job that has not ended to another status.
Progress(j) ==
    /\ Running
    /\ j \in Range(job_ids)
    /\ status[j] \in NonTerminal
    /\ \E s \in Statuses \ {status[j]} : status' = [status EXCEPT ![j] = s]
    /\ UNCHANGED <<pipeline, job_ids, pc, idx, completed_jobs, response, printed, history,
                   raises, flipped>>

\* The provider ends a job: it reports SUCCEEDED or FAILED from now on.
Finish(j) ==
    /\ Running
    /\ j \in Range(job_ids)
    /\ status[j] \in NonTerminal
    /\ \E s \in Terminal : status' = [status EXCEPT ![j] = s]
    /\ UNCHANGED <<pipeline, job_ids, pc, idx, completed_jobs, response, printed, history,
                   raises, flipped>>

\* A stand-in provider changes the answer for a job this call has already
\* seen terminal (a change nobody has seen is a Progress step to the call).
Flip(j) ==
    /\ Running
    /\ j \in seen
    /\ status[j] \in Terminal
    /\ \E s \in Statuses \ {status[j]} : status' = [status EXCEPT ![j] = s]
    /\ flipped' = flipped \cup {j}
    /\ UNCHANGED <<pipeline, job_ids, pc, idx, completed_jobs, response, printed, history,
                   raises>>

\* The steps of the call while describe_jobs answers.
Tracker ==
    \/ WhileEnter
    \/ WhileExit
    \/ ForSkip
    \/ ForQuery
    \/ PassEndSleep
    \/ PassEndDone
    \/ Wake
    \/ SummaryQuery
    \/ Return

Next ==
    \/ Tracker
    \/ ForRaise
    \/ SummaryRaise
    \/ \E j \in Ids : Progress(j)
    \/ \E j \in Ids : Flip(j)

\* Any provider: answers may change in any way, calls may raise.
Spec == Init /\ [][Next]_vars

NextAnswering ==
    \/ Tracker
    \/ \E j \in Ids : Progress(j)

\* A provider that always answers, under which every job ends and keeps its
\* end status; the call itself keeps running (nothing else holds it up).
FairSpec ==
    /\ Init
    /\ [][NextAnswering]_vars
    /\ WF_vars(Tracker)
    /\ \A j \in Ids : WF_vars(Finish(j))

\* A provider that always answers but need not ever end a job; the call
\* itself keeps running.
WaitingSpec ==
    /\ Init
    /\ [][NextAnswering]_vars
    /\ WF_vars(Tracker)

\* ------------------------------------------------------------ properties

Distinct == Cardinality(Range(job_ids)) = Len(job_ids)

\* The provider reports every job of job_ids in a terminal state.
AllReportedTerminal == \A j \in Range(job_ids) : status[j] \in Terminal

\* C1: with pairwise distinct job ids and a provider under which every job
\* ends and keeps its end status, the call eventually returns; with no job
\* ids at all it never queries the provider and never sleeps.
C1_Terminates ==
    /\ [](Len(job_ids) = 0 =>
            response = NoResponse /\ passes = 0 /\ sleeps = 0 /\ summary = <<>>)
    /\ (Distinct => <>(pc = "done"))

\* A call with two different jobs that had to sleep before it returned.
C1_Witness ==
    pc = "done" /\ Len(job_ids) = 2 /\ Distinct /\ sleeps >= 1

\* C2: when the polling loop has been left, every id of job_ids has been
\* reported terminal by a query of the polling loop.
C2_NoEarlyReturn ==
    pc \in {"summary", "done"} => AllSeen(seen)

\* The loop is left after a second pass over two jobs.
C2_Witness ==
    pc = "summary" /\ idx = 1 /\ Len(job_ids) = 2 /\ passes = 2

\* C3: for every job_ids sequence, repeated ids included, once the provider
\* reports every job terminal the call leaves the loop and returns.
C3_ReturnsForEverySequence == AllReportedTerminal ~> (pc = "done")

\* C4: a job in completed_jobs is not queried again by the polling loop, no
\* line is printed for it by the loop again, and its "completed with status"
\* line is printed at most once.
C4_NoRepeatInLoop ==
    /\ requeried = {}
    /\ reprinted = {}
    /\ \A j \in Ids : ncompleted[j] <= 1

\* In a second pass the loop has gone past a completed job for which the
\* provider now answers RUNNING.
C4_Witness ==
    /\ pc = "for"
    /\ passes = 2
    /\ \E k \in 1..Len(job_ids) :
         /\ k < idx
         /\ job_ids[k] \in completed_jobs
         /\ status[job_ids[k]] = "RUNNING"

\* C5 as stated: a job that has been seen terminal is never queried again,
\* in the polling loop or after it.
C5_NeverQueriedAgain == \A j \in Ids : late[j] = 0

\* C5 amended: a job that has been seen terminal is not queried again by the
\* polling loop; the only later queries are those of the final summary, one
\* per job, so a call that returns has queried every job once more.
C5_QueriedAgainOnlyBySummary ==
    /\ \A j \in Ids : late[j] = nq_sum[j] /\ nq_sum[j] <= 1
    /\ pc = "done" => \A j \in Range(job_ids) : late[j] = 1

\* A call that returned after the summary queried a job a second time.
C5_Witness ==
    pc = "done" /\ \E j \in Range(job_ids) : late[j] = 1 /\ nq_sum[j] = 1

\* C6: the final summary queries the jobs in the order of job_ids: its i-th
\* line is for job_ids[i], whatever the order of completion, and a call that
\* returns has queried and printed every job exactly once.
C6_SummaryInInputOrder ==
    /\ Len(summary) <= Len(job_ids)
    /\ \A k \in 1..Len(summary) : summary[k].id = job_ids[k]
    /\ pc = "summary" => Len(summary) = idx - 1
    /\ pc = "done" =>
         /\ Len(summary) = Len(job_ids)
         /\ \A j \in Range(job_ids) : nq_sum[j] = 1

\* Two jobs that completed in the reverse of the input order, summarised.
C6_Witness ==
    /\ pc = "done"
    /\ Len(job_ids) = 2
    /\ order = <<job_ids[2], job_ids[1]>>
    /\ Len(summary) = 2

\* C7 as stated: every status of the final summary is terminal and is the
\* status the polling loop printed when it completed the job.
C7_SummaryIsRecorded ==
    \A k \in 1..Len(summary) :
        /\ summary[k].status \in Terminal
        /\ summary[k].status = recorded[summary[k].id]

\* C7 amended: every status of the final summary is the answer of the
\* describe_jobs call made for that line; for a job whose answer the
\* provider has not changed since the loop completed it, that status is
\* terminal and is the one the loop printed.
C7_SummaryIsRecordedUnlessChanged ==
    \A k \in 1..Len(summary) :
        summary[k].id \notin flipped =>
            /\ summary[k].status \in Terminal
            /\ summary[k].status = recorded[summary[k].id]

\* A summary FAILED, SUCCEEDED of two jobs with unchanged answers.
C7_Witness ==
    /\ pc = "done"
    /\ flipped = {}
    /\ Len(summary) = 2
    /\ summary[1].status = "FAILED"
    /\ summary[2].status = "SUCCEEDED"
    /\ recorded[job_ids[1]] = "FAILED"

\* The job record handled in this step was FAILED.
FailedNow == response.status = "FAILED" /\ pc = "for"

\* C8: a FAILED job is completed like a SUCCEEDED one, its reason is printed
\* exactly when the status is FAILED and a reason came with it, the call does
\* not raise or stop on it, and it returns once all jobs are terminal.
C8_FailedIsRecordedAndCallReturns ==
    /\ [](FailedNow =>
            /\ response.id \in completed_jobs
            /\ recorded[response.id] = "FAILED"
            /\ printed[1] = <<"completed", response.id, "FAILED">>
            /\ (Len(printed) = 2) = response.reason)
    /\ [](response.status = "SUCCEEDED" /\ pc = "for" => Len(printed) = 1)
    /\ ((\E j \in Ids : recorded[j] = "FAILED") /\ AllReportedTerminal)
          ~> (pc = "done")

\* C9: an exception of describe_jobs ends the call at once: the step that
\* raises prints nothing and records nothing, every raise leaves the call
\* raised, and a raised call takes no further step (no query, no sleep, no
\* summary line).
C9_RaisePropagates ==
    /\ [](raises > 0 => pc = "raised" /\ raises = 1)
    /\ [][pc' = "raised" =>
            /\ pc \in {"for", "summary"}
            /\ printed' = <<>>
            /\ UNCHANGED <<completed_jobs, history, idx>>]_vars
    /\ [][pc # "raised"]_vars

\* describe_jobs raised for the second line of the final summary.
C9_Witness ==
    pc = "raised" /\ raises = 1 /\ Len(job_ids) = 2 /\ Len(summary) = 1

\* C10: with k the first pass at whose end every id of job_ids has been seen
\* terminal, the call makes exactly k passes and k-1 sleeps; it sleeps after
\* a pass exactly when completed_jobs is still smaller than job_ids.
C10_PassesAndSleeps ==
    /\ kpass \in 1..(MaxCount - 1) => passes = kpass /\ sleeps = kpass - 1
    /\ pc \in {"summary", "done"} /\ Len(job_ids) > 0 => kpass # 0
    /\ pc = "sleep" => NotAllCompleted

\* C11: completed_jobs holds only ids of job_ids, only ids a query of this
\* call has reported terminal, never more ids than jobs were submitted, and
\* no step takes an id out of it.
C11_CompletedSet ==
    /\ [](/\ completed_jobs \subseteq Range(job_ids)
          /\ completed_jobs \subseteq seen
          /\ Cardinality(completed_jobs) <= Len(job_ids))
    /\ [][completed_jobs \subseteq completed_jobs']_vars

\* Both of two different jobs are in completed_jobs, added in two passes.
C11_Witness ==
    /\ Len(job_ids) = 2
    /\ Cardinality(completed_jobs) = 2
    /\ passes = 2

\* C12: while some job of job_ids is never reported terminal, the call never
\* leaves the polling loop and never returns: it starts pass after pass and
\* sleeps between them without end, and in a pass it queries exactly the jobs
\* that are not in completed_jobs.
C12_WaitsForever ==
    /\ \A j \in Ids :
         [](j \in Range(job_ids) /\ j \notin seen) =>
             /\ [](pc \in {"while", "for", "sleep"})
             /\ []<>(pc = "for" /\ idx = 1)
             /\ []<>(pc = "sleep")
    /\ [][pc = "for" /\ idx' = idx + 1 =>
            ((response' # NoResponse) <=> (job_ids[idx] \notin completed_jobs))]_vars

\* The call sleeps after its second pass, one job completed, one not ended.
C12_Witness ==
    /\ pc = "sleep"
    /\ passes = 2
    /\ sleeps = 2
    /\ Cardinality(completed_jobs) = 1
    /\ \E j \in Range(job_ids) : j \notin seen /\ status[j] = "RUNNING"

\* The mode a request asks for: its "mode" member, logits without one.
RequestedMode ==
    IF request.body.mode = "absent" THEN "logits" ELSE request.body.mode

\* The request is over.
Served == stage \in {"returned", "raised"}

\* What holds of every request: a ValueError for another content type, for
\* another mode and for another accept type of a request that got that far,
\* a returned body with the requested mode as its one key, and no request
\* reaches the unknown-mode branch of output_fn.
C13_Common ==
    /\ stage = "returned" =>
         /\ outcome.keys = {RequestedMode}
         /\ RequestedMode \in {"logits", "embeddings"}
         /\ request.content_type = JSON
         /\ request.accept = JSON
    /\ Served /\ request.content_type # JSON =>
         outcome.exc = "ValueError" /\ outcome.by = "input_fn"
    /\ Served /\ request.content_type = JSON /\ request.body.kind = "object"
       /\ request.body.has_sequence /\ RequestedMode \notin {"logits", "embeddings"} =>
         outcome.exc = "ValueError" /\ outcome.by = "predict_fn"
    /\ stage = "raised" /\ outcome.by = "output_fn" /\ request.accept # JSON =>
         outcome.exc = "ValueError"
    /\ ~(outcome.by = "output_fn" /\ outcome.message = "Unknown mode")

====
